---- MODULE Spec2Model ----
(***************************************************************************)
(* A model of extract-livp (src/main.py): the batch loop that allocates a  *)
(* collision-free output stem for every .livp archive, selects the image   *)
(* and the video member of the archive and copies them into the output     *)
(* directory "converted".                                                  *)
(*                                                                         *)
(* Text (stems, member names, file names) is modelled as sequences of      *)
(* one-character strings, so that sanitizing, suffixing, lower-casing and  *)
(* extension matching are computed as the code computes them.              *)
(***************************************************************************)
EXTENDS Integers, Sequences, FiniteSets, TLC

\* ------------------------------------------------------------------ bounds
\* archives found by one scan of the input directory: 0 .. MaxFiles
MaxFiles == 2
\* runs of the program against the same input and output directory
MaxRuns == 2
\* members of an archive in the member-selection specification
MaxMembers == 3
\* characters of a file stem in the name-allocation specification
MaxStemLen == 3

\* ------------------------------------------------------------------- text
Upper == <<"A","B","C","D","E","F","G","H","I","J","K","L","M",
           "N","O","P","Q","R","S","T","U","V","W","X","Y","Z">>
Lower == <<"a","b","c","d","e","f","g","h","i","j","k","l","m",
           "n","o","p","q","r","s","t","u","v","w","x","y","z">>
Digits == <<"0","1","2","3","4","5","6","7","8","9">>

\* str.lower() of one character (ASCII letters)
LowerChar(c) ==
    IF \E k \in 1..Len(Upper) : Upper[k] = c
    THEN Lower[CHOOSE k \in 1..Len(Upper) : Upper[k] = c]
    ELSE c

\* str.lower()
RECURSIVE ToLower(_)
ToLower(s) == IF s = <<>> THEN <<>>
              ELSE <<LowerChar(Head(s))>> \o ToLower(Tail(s))

\* str.startswith(prefix)
StartsWith(s, prefix) ==
    /\ Len(s) >= Len(prefix)
    /\ SubSeq(s, 1, Len(prefix)) = prefix

\* str.endswith(suffix)
EndsWith(s, suffix) ==
    /\ Len(s) >= Len(suffix)
    /\ SubSeq(s, Len(s) - Len(suffix) + 1, Len(s)) = suffix

\* str(n) for n >= 0, as the f-string renders the counter
RECURSIVE Dec(_)
Dec(n) == IF n < 10 THEN <<Digits[n + 1]>>
          ELSE Dec(n \div 10) \o <<Digits[(n % 10) + 1]>>

\* whitespace characters that have no escape in a string: U+000B (line
\* tabulation), U+001C..U+001F (file, group, record and unit separator),
\* U+0085 (next line) and U+00A0 (no-break space)
VT == ""
FS == ""
GS == ""
RS == ""
US == ""
NEL == ""
NBSP == " "

\* characters str.strip() removes: those for which str.isspace() holds, among
\* the characters up to U+00FF that the strings here are made of
Whitespace == {" ", "\t", "\n", "\r", "\f", VT, FS, GS, RS, US, NEL, NBSP}

RECURSIVE LStrip(_)
LStrip(s) == IF s # <<>> /\ Head(s) \in Whitespace THEN LStrip(Tail(s)) ELSE s

RECURSIVE RStrip(_)
RStrip(s) == IF s # <<>> /\ s[Len(s)] \in Whitespace
             THEN RStrip(SubSeq(s, 1, Len(s) - 1)) ELSE s

\* str.strip()
Strip(s) == RStrip(LStrip(s))

\* the character class of the pattern in sanitize_stem
IllegalChars == {"<", ">", ":", "\"", "/", "\\", "|", "?", "*", "\n", "\r"}

RECURSIVE DropIllegal(_)
DropIllegal(s) == IF s # <<>> /\ Head(s) \in IllegalChars
                  THEN DropIllegal(Tail(s)) ELSE s

\* re.sub(r'[<>:"/\\|?*\n\r]+', '_', stem): every maximal run becomes one '_'
RECURSIVE SubIllegal(_)
SubIllegal(s) ==
    IF s = <<>> THEN <<>>
    ELSE IF Head(s) \in IllegalChars
         THEN <<"_">> \o SubIllegal(DropIllegal(s))
         ELSE <<Head(s)>> \o SubIllegal(Tail(s))

\* a variant of sanitize_stem without the trailing .strip()
sanitize_stem_NoStrip(stem) == SubIllegal(stem)

\* lines 7-9
sanitize_stem(stem) == Strip(SubIllegal(stem))

\* ------------------------------------------------------------- extensions
HEIC == <<".","h","e","i","c">>
JPG  == <<".","j","p","g">>
JPEG == <<".","j","p","e","g">>
MOV  == <<".","m","o","v">>

IMAGE_EXTS == <<HEIC, JPG, JPEG>>

\* a variant of PROBE_EXTS that probes for the video file only
PROBE_EXTS_MovOnly == <<MOV>>

\* ('.mov',) + IMAGE_EXTS, the extensions get_unique_stem probes
PROBE_EXTS == <<MOV>> \o IMAGE_EXTS

\* name_lower.endswith(IMAGE_EXTS)
EndsWithImageExt(s) == \E k \in 1..Len(IMAGE_EXTS) : EndsWith(s, IMAGE_EXTS[k])

\* -------------------------------------------------------- get_unique_stem
\* a variant of Suffixed that numbers the duplicates from _2
Suffixed_OffByOne(base_stem, n) == base_stem \o <<"_">> \o Dec(n + 1)

\* f"{base_stem}_{n}"
Suffixed(base_stem, n) == base_stem \o <<"_">> \o Dec(n)

\* line 23: the first candidate for the recorded counter
FirstCandidate(base_stem, counter) ==
    IF counter = 0 THEN base_stem ELSE Suffixed(base_stem, counter)

\* a variant of ExistsOnDisk that trusts the registry and never looks at disk
ExistsOnDisk_NoCheck(candidate, files) == FALSE

\* line 25: any((output_dir / f"{candidate}{ext}").exists() for ext in ...)
\* files is the set of file names present in the output directory
ExistsOnDisk(candidate, files) ==
    \E k \in 1..Len(PROBE_EXTS) : (candidate \o PROBE_EXTS[k]) \in files

\* lines 25-27: bump the counter while the candidate is taken on disk
RECURSIVE ProbeLoop(_, _, _, _)
ProbeLoop(base_stem, counter, candidate, files) ==
    IF ExistsOnDisk(candidate, files)
    THEN ProbeLoop(base_stem, counter + 1, Suffixed(base_stem, counter + 1), files)
    ELSE [counter |-> counter, candidate |-> candidate]

\* a variant of Registered that starts a new registry for an unseen base stem
Registered_Fresh(base_stem, existing_stems) ==
    IF base_stem \in DOMAIN existing_stems
    THEN existing_stems
    ELSE base_stem :> 0

\* lines 20-21: a base stem not seen in this run starts at counter 0
Registered(base_stem, existing_stems) ==
    IF base_stem \in DOMAIN existing_stems
    THEN existing_stems
    ELSE existing_stems @@ (base_stem :> 0)

\* lines 23-37 with the registry reg that holds base_stem; lines 30-35 leave
\* the counter as the loop left it
Probe(base_stem, reg, r) ==
    [stem |-> r.candidate, registry |-> [reg EXCEPT ![base_stem] = r.counter]]

UniqueFor(base_stem, reg, files) ==
    Probe(base_stem, reg,
          ProbeLoop(base_stem, reg[base_stem],
                    FirstCandidate(base_stem, reg[base_stem]), files))

\* lines 13-37; existing_stems is the registry (a function on the base stems
\* seen so far), files the names present in the output directory; base_stem is
\* bound once to the sanitized stem, as line 18 does
get_unique_stem(raw_stem, existing_stems, files) ==
    CHOOSE r \in { UniqueFor(base_stem, Registered(base_stem, existing_stems),
                             files) : base_stem \in {sanitize_stem(raw_stem)} } :
        TRUE

\* ------------------------------------------------------------ PurePosixPath
\* the text of s up to its first "/"
RECURSIVE UpToSlash(_)
UpToSlash(s) == IF s = <<>> \/ Head(s) = "/" THEN <<>>
                ELSE <<Head(s)>> \o UpToSlash(Tail(s))

\* s.split("/")
RECURSIVE SplitSlash(_)
SplitSlash(s) ==
    LET first == UpToSlash(s)
    IN  IF Len(first) = Len(s) THEN <<first>>
        ELSE <<first>> \o SplitSlash(SubSeq(s, Len(first) + 2, Len(s)))

\* pathlib drops empty and "." components
KeptSegment(seg) == seg # <<>> /\ seg # <<".">>

\* the root of a posix path: "/" , or "//" for exactly two leading slashes
PathRoot(filename) ==
    IF ~StartsWith(filename, <<"/">>) THEN <<>>
    ELSE IF StartsWith(filename, <<"/","/">>) /\ ~StartsWith(filename, <<"/","/","/">>)
         THEN <<"/","/">>
         ELSE <<"/">>

\* PurePosixPath(filename).parts
PathParts(filename) ==
    LET segs == SelectSeq(SplitSlash(filename), KeptSegment)
    IN  IF PathRoot(filename) = <<>> THEN segs ELSE <<PathRoot(filename)>> \o segs

\* PurePosixPath(filename).name
PathName(filename) ==
    LET segs == SelectSeq(SplitSlash(filename), KeptSegment)
    IN  IF segs = <<>> THEN <<>> ELSE segs[Len(segs)]

\* name.rfind('.') as a 1-based index, 0 when there is no dot
LastDot(name) ==
    IF \E k \in 1..Len(name) : name[k] = "."
    THEN CHOOSE k \in 1..Len(name) :
            name[k] = "." /\ \A j \in (k + 1)..Len(name) : name[j] # "."
    ELSE 0

\* PurePosixPath(filename).suffix
PathSuffix(filename) ==
    LET name == PathName(filename)
        d == LastDot(name)
    IN  IF 1 < d /\ d < Len(name) THEN SubSeq(name, d, Len(name)) ELSE <<>>

\* ---------------------------------------------------------- member selection
\* Python's None for image_file_name / mov_file_name
NoneName == <<"None">>

\* "if x": a name is truthy when it is neither None nor the empty string
Truthy(name) == name # NoneName /\ name # <<>>

\* a variant of SkippedParts that knows hidden entries only
SkippedParts_DotOnly(parts) ==
    \E k \in 1..Len(parts) : StartsWith(ToLower(parts[k]), <<".">>)

\* line 125: a path segment that marks macOS metadata or a hidden entry
SkippedParts(parts) ==
    \/ \E k \in 1..Len(parts) :
          StartsWith(ToLower(parts[k]), <<"_","_","m","a","c","o","s","x">>)
    \/ \E k \in 1..Len(parts) : StartsWith(ToLower(parts[k]), <<".">>)

SkippedMember(filename) == SkippedParts(PathParts(filename))

\* a variant of PickImage in which a later image replaces an earlier one
PickImage_LastWins(filename, image_name) ==
    IF EndsWithImageExt(ToLower(PathName(filename)))
    THEN filename
    ELSE image_name

\* lines 128-130: the image name after looking at one kept member
PickImage(filename, image_name) ==
    IF EndsWithImageExt(ToLower(PathName(filename)))
    THEN (IF image_name = NoneName THEN filename ELSE image_name)
    ELSE image_name

\* lines 131-132: the video name after looking at one kept member
PickMov(filename, mov_name) ==
    IF /\ ~EndsWithImageExt(ToLower(PathName(filename)))
       /\ EndsWith(ToLower(PathName(filename)), MOV)
    THEN (IF mov_name = NoneName THEN filename ELSE mov_name)
    ELSE mov_name

\* lines 134-135: leave the loop once both are found
BreakScan(image_name, mov_name) ==
    Truthy(image_name) /\ Truthy(mov_name)

RECURSIVE ScanMembers(_, _, _, _)

\* lines 134-135 after member k, with the names as member k left them
ScanOn(namelist, k, image_name, mov_name) ==
    IF BreakScan(image_name, mov_name)
    THEN [image |-> image_name, mov |-> mov_name]
    ELSE ScanMembers(namelist, k + 1, image_name, mov_name)

\* lines 118-135: the scan from member k on
ScanMembers(namelist, k, image_name, mov_name) ==
    IF k > Len(namelist)
    THEN [image |-> image_name, mov |-> mov_name]
    ELSE IF SkippedMember(namelist[k])
    THEN ScanMembers(namelist, k + 1, image_name, mov_name)
    ELSE ScanOn(namelist, k, PickImage(namelist[k], image_name),
                PickMov(namelist[k], mov_name))

\* lines 115-135
SelectMembers(namelist) == ScanMembers(namelist, 1, NoneName, NoneName)

\* line 137: "not image_file_name or not mov_file_name"
Incomplete(sel) == ~Truthy(sel.image) \/ ~Truthy(sel.mov)

\* ------------------------------------------------------------ the archives
\* member names used by the archives of the model
M_iHEIC    == <<"i",".","H","E","I","C">>
M_pjpg     == <<"p",".","j","p","g">>
M_vmov     == <<"v",".","m","o","v">>
M_vMOV     == <<"d","/","v",".","M","O","V">>
M_macosImg == <<"_","_","M","A","C","O","S","X","/","i",".","h","e","i","c">>

\* What goes wrong while an archive that is a zip container is handled: where
\* lines 146-151 are left and the exception raised there.  "copy_mov" with
\* BadZipFile is a video member whose payload fails its CRC check while it is
\* copied; "open_mov" with NotImplementedError is a video member stored with a
\* compression method zipfile cannot read; "open_image" with RuntimeError is an
\* image member flagged as encrypted, which zip_ref.open refuses without a
\* password; "copy_mov" with KeyboardInterrupt is the user pressing Ctrl-C
\* while line 151 copies the video member.
NoFault == [at |-> "none", exc |-> "none"]
BadCrcMov == [at |-> "copy_mov", exc |-> "BadZipFile"]
UnsupportedMov == [at |-> "open_mov", exc |-> "NotImplementedError"]
EncryptedImage == [at |-> "open_image", exc |-> "RuntimeError"]
InterruptedMov == [at |-> "copy_mov", exc |-> "KeyboardInterrupt"]

\* An archive of the input directory: its name in the model, the stem of its
\* path (livp_path.stem),
\* whether zipfile.ZipFile accepts it, its namelist(), for every member name
\* the bytes zip_ref.open(name) yields, and what goes wrong while it is handled.
ArchiveIds == {"A", "B", "C", "X", "V", "K", "N", "E", "I"}

Archive(id) ==
    CASE id = "A" -> [id |-> "A", stem |-> <<"a">>, zip |-> TRUE,
                      names |-> <<M_iHEIC, M_vmov>>,
                      data |-> (M_iHEIC :> <<1, 2>>) @@ (M_vmov :> <<3, 4>>),
                      fault |-> NoFault]
      [] id = "B" -> [id |-> "B", stem |-> <<"a">>, zip |-> TRUE,
                      names |-> <<M_vMOV, M_pjpg>>,
                      data |-> (M_vMOV :> <<5, 6>>) @@ (M_pjpg :> <<7, 8>>),
                      fault |-> NoFault]
      [] id = "C" -> [id |-> "C", stem |-> <<"a","?","1">>, zip |-> TRUE,
                      names |-> <<M_iHEIC, M_vmov>>,
                      data |-> (M_iHEIC :> <<1, 3>>) @@ (M_vmov :> <<3, 5>>),
                      fault |-> NoFault]
      [] id = "X" -> [id |-> "X", stem |-> <<"a">>, zip |-> FALSE,
                      names |-> <<>>, data |-> <<>>, fault |-> NoFault]
      [] id = "V" -> [id |-> "V", stem |-> <<"a">>, zip |-> TRUE,
                      names |-> <<M_macosImg, M_vmov>>,
                      data |-> (M_macosImg :> <<9, 9>>) @@ (M_vmov :> <<3, 6>>),
                      fault |-> NoFault]
      [] id = "K" -> [id |-> "K", stem |-> <<"a">>, zip |-> TRUE,
                      names |-> <<M_iHEIC, M_vmov>>,
                      data |-> (M_iHEIC :> <<1, 4>>) @@ (M_vmov :> <<3, 7>>),
                      fault |-> BadCrcMov]
      [] id = "N" -> [id |-> "N", stem |-> <<"a">>, zip |-> TRUE,
                      names |-> <<M_iHEIC, M_vmov>>,
                      data |-> (M_iHEIC :> <<1, 5>>) @@ (M_vmov :> <<3, 8>>),
                      fault |-> UnsupportedMov]
      [] id = "E" -> [id |-> "E", stem |-> <<"a">>, zip |-> TRUE,
                      names |-> <<M_iHEIC, M_vmov>>,
                      data |-> (M_iHEIC :> <<1, 6>>) @@ (M_vmov :> <<3, 9>>),
                      fault |-> EncryptedImage]
      [] id = "I" -> [id |-> "I", stem |-> <<"a">>, zip |-> TRUE,
                      names |-> <<M_iHEIC, M_vmov>>,
                      data |-> (M_iHEIC :> <<1, 7>>) @@ (M_vmov :> <<3, 0>>),
                      fault |-> InterruptedMov]

\* all sequences over S of length 0 .. n
SeqsUpTo(S, n) == UNION {[1..k -> S] : k \in 0..n}

\* what the output directory may hold before the first run
OldBytes == <<0, 0>>
InitialDisks ==
    { <<>>,
      (<<"a">> \o MOV) :> OldBytes,
      ((<<"a">> \o MOV) :> OldBytes) @@ ((<<"a","_","1">> \o JPG) :> OldBytes) }

\* answers typed at the confirmation prompt, and those among them by which
\* the user agrees to proceed
YesAnswers == { <<"y","e","s">>, <<"Y">>, <<" ","Y","e","s"," ">>,
                <<NBSP,"y","e","s",VT>>, <<US,"y">> }
Answers == YesAnswers \cup { <<"n","o">>, <<"y","e","p">>, <<>> }

\* open(path, 'wb') followed by writing bytes: the file is created or replaced
WriteFile(files, name, bytes) ==
    [f \in (DOMAIN files) \cup {name} |-> IF f = name THEN bytes ELSE files[f]]

\* exceptions that no statement of the copy raises: they are delivered between
\* two instructions of it, wherever the program is when the signal of Ctrl-C
\* arrives
Asynchronous == {"KeyboardInterrupt"}

\* What shutil.copyfileobj may have written when the copy is left with exc.
\* Every member of the model is shorter than one chunk.  When reading the
\* member fails, zipfile checks the chunk before handing it over, so the
\* target file, already created by open(path, 'wb'), stays empty.  An
\* asynchronous exception arrives before the chunk is written or after it:
\* the target file is empty or holds the whole member.
CopiedBeforeFault(bytes, exc) ==
    IF exc \in Asynchronous
    THEN {SubSeq(bytes, 1, 0), bytes}
    ELSE {SubSeq(bytes, 1, 0)}

\* ------------------------------------------------------------ one extraction
\* How lines 112-151 end for one archive: the exception raised ("none", or
\* "skip" for the continue of line 140), the output directory afterwards,
\* whether the scan ran and what it selected, and the output files opened for
\* writing.
Outcome(exc, files, scanned, sel, opened) ==
    [exc |-> exc, files |-> files, scanned |-> scanned,
     image |-> sel.image, mov |-> sel.mov, writes |-> opened]

\* lines 146-151: copy the image member, then the video member; the ways
\* this can end
CopyMembers(arch, files, sel, output_image_path, output_mov_path) ==
    IF arch.fault.at = "open_image"
    THEN {Outcome(arch.fault.exc, files, TRUE, sel, {})}
    ELSE IF arch.fault.at = "copy_image"
    THEN {Outcome(arch.fault.exc,
                  WriteFile(files, output_image_path, written),
                  TRUE, sel, {output_image_path}) :
             written \in CopiedBeforeFault(arch.data[sel.image], arch.fault.exc)}
    ELSE IF arch.fault.at = "open_mov"
    THEN {Outcome(arch.fault.exc,
                  WriteFile(files, output_image_path, arch.data[sel.image]),
                  TRUE, sel, {output_image_path})}
    ELSE IF arch.fault.at = "copy_mov"
    THEN {Outcome(arch.fault.exc,
                  WriteFile(WriteFile(files, output_image_path, arch.data[sel.image]),
                            output_mov_path, written),
                  TRUE, sel, {output_image_path, output_mov_path}) :
             written \in CopiedBeforeFault(arch.data[sel.mov], arch.fault.exc)}
    ELSE {Outcome("none",
                  WriteFile(WriteFile(files, output_image_path, arch.data[sel.image]),
                            output_mov_path, arch.data[sel.mov]),
                  TRUE, sel, {output_image_path, output_mov_path})}

\* a variant of ImageExt that names every image output .heic, as the unused
\* output_heic_path of line 108 does
ImageExt_AlwaysHeic(image_name) == HEIC

\* line 143: image_ext = PurePosixPath(image_file_name).suffix.lower()
ImageExt(image_name) == ToLower(PathSuffix(image_name))

\* For each archive of the model the scan of lines 113-135 and the image
\* extension of line 143: what an archive holds does not change during a run,
\* so both are computed once per archive.
ScanTable ==
    [A |-> SelectMembers(Archive("A").names),
     B |-> SelectMembers(Archive("B").names),
     C |-> SelectMembers(Archive("C").names),
     X |-> SelectMembers(Archive("X").names),
     V |-> SelectMembers(Archive("V").names),
     K |-> SelectMembers(Archive("K").names),
     N |-> SelectMembers(Archive("N").names),
     E |-> SelectMembers(Archive("E").names),
     I |-> SelectMembers(Archive("I").names)]
ExtTable ==
    [A |-> ImageExt(ScanTable.A.image),
     B |-> ImageExt(ScanTable.B.image),
     C |-> ImageExt(ScanTable.C.image),
     X |-> ImageExt(ScanTable.X.image),
     V |-> ImageExt(ScanTable.V.image),
     K |-> ImageExt(ScanTable.K.image),
     N |-> ImageExt(ScanTable.N.image),
     E |-> ImageExt(ScanTable.E.image),
     I |-> ImageExt(ScanTable.I.image)]

\* lines 137-151, once the scan has selected sel: the ways they can end
AfterScan(arch, stem, files, sel) ==
    IF Incomplete(sel)
    THEN {Outcome("skip", files, TRUE, sel, {})}
    ELSE CopyMembers(arch, files, sel,
                     stem \o ExtTable[arch.id], stem \o MOV)

\* lines 112-151 for one archive: the ways they can end
ExtractArchive(arch, stem, files) ==
    IF ~arch.zip
    THEN {Outcome("BadZipFile", files, FALSE,
                  [image |-> NoneName, mov |-> NoneName], {})}
    ELSE AfterScan(arch, stem, files, ScanTable[arch.id])

\* a variant of Caught without the second handler (lines 158-160)
Caught_OnlyBadZip(exc) == exc = "BadZipFile"

\* The exception classes that exist in the Python 3.11 process once main.py
\* and the decompressors of zipfile are loaded, each with a class it is
\* derived from directly: the built-in ones and those of zipfile, zlib, lzma,
\* binascii, struct, shutil, io, re and the modules they load.  BaseException
\* is the root.
Derivations ==
    { <<"BaseExceptionGroup", "BaseException">>,
      <<"ExceptionGroup", "BaseExceptionGroup">>,
      <<"ExceptionGroup", "Exception">>, <<"Exception", "BaseException">>,
      <<"ArithmeticError", "Exception">>,
      <<"FloatingPointError", "ArithmeticError">>,
      <<"OverflowError", "ArithmeticError">>,
      <<"ZeroDivisionError", "ArithmeticError">>,
      <<"AssertionError", "Exception">>, <<"AttributeError", "Exception">>,
      <<"BufferError", "Exception">>, <<"EOFError", "Exception">>,
      <<"ImportError", "Exception">>,
      <<"ModuleNotFoundError", "ImportError">>,
      <<"zipimport.ZipImportError", "ImportError">>,
      <<"LookupError", "Exception">>, <<"IndexError", "LookupError">>,
      <<"KeyError", "LookupError">>,
      <<"encodings.CodecRegistryError", "LookupError">>,
      <<"encodings.CodecRegistryError", "SystemError">>,
      <<"MemoryError", "Exception">>, <<"NameError", "Exception">>,
      <<"UnboundLocalError", "NameError">>, <<"OSError", "Exception">>,
      <<"BlockingIOError", "OSError">>, <<"ChildProcessError", "OSError">>,
      <<"ConnectionError", "OSError">>,
      <<"BrokenPipeError", "ConnectionError">>,
      <<"ConnectionAbortedError", "ConnectionError">>,
      <<"ConnectionRefusedError", "ConnectionError">>,
      <<"ConnectionResetError", "ConnectionError">>,
      <<"FileExistsError", "OSError">>, <<"FileNotFoundError", "OSError">>,
      <<"InterruptedError", "OSError">>, <<"IsADirectoryError", "OSError">>,
      <<"NotADirectoryError", "OSError">>, <<"PermissionError", "OSError">>,
      <<"ProcessLookupError", "OSError">>, <<"TimeoutError", "OSError">>,
      <<"io.UnsupportedOperation", "OSError">>,
      <<"io.UnsupportedOperation", "ValueError">>,
      <<"signal.itimer_error", "OSError">>, <<"shutil.Error", "OSError">>,
      <<"shutil.SameFileError", "shutil.Error">>,
      <<"shutil.SpecialFileError", "OSError">>,
      <<"shutil.ExecError", "OSError">>, <<"shutil.ReadError", "OSError">>,
      <<"ReferenceError", "Exception">>, <<"RuntimeError", "Exception">>,
      <<"NotImplementedError", "RuntimeError">>,
      <<"RecursionError", "RuntimeError">>,
      <<"importlib._DeadlockError", "RuntimeError">>,
      <<"threading.BrokenBarrierError", "RuntimeError">>,
      <<"StopAsyncIteration", "Exception">>, <<"StopIteration", "Exception">>,
      <<"SyntaxError", "Exception">>, <<"IndentationError", "SyntaxError">>,
      <<"TabError", "IndentationError">>, <<"SystemError", "Exception">>,
      <<"TypeError", "Exception">>, <<"ValueError", "Exception">>,
      <<"UnicodeError", "ValueError">>,
      <<"UnicodeDecodeError", "UnicodeError">>,
      <<"UnicodeEncodeError", "UnicodeError">>,
      <<"UnicodeTranslateError", "UnicodeError">>,
      <<"binascii.Error", "ValueError">>,
      <<"ipaddress.AddressValueError", "ValueError">>,
      <<"ipaddress.NetmaskValueError", "ValueError">>,
      <<"Warning", "Exception">>, <<"BytesWarning", "Warning">>,
      <<"DeprecationWarning", "Warning">>, <<"EncodingWarning", "Warning">>,
      <<"FutureWarning", "Warning">>, <<"ImportWarning", "Warning">>,
      <<"PendingDeprecationWarning", "Warning">>,
      <<"ResourceWarning", "Warning">>, <<"RuntimeWarning", "Warning">>,
      <<"SyntaxWarning", "Warning">>, <<"UnicodeWarning", "Warning">>,
      <<"UserWarning", "Warning">>, <<"re.error", "Exception">>,
      <<"warnings._OptionError", "Exception">>, <<"zlib.error", "Exception">>,
      <<"lzma.LZMAError", "Exception">>,
      <<"shutil.RegistryError", "Exception">>,
      <<"shutil._GiveupOnFastCopy", "Exception">>,
      <<"binascii.Incomplete", "Exception">>, <<"struct.error", "Exception">>,
      <<"BadZipFile", "Exception">>, <<"LargeZipFile", "Exception">>,
      <<"GeneratorExit", "BaseException">>,
      <<"KeyboardInterrupt", "BaseException">>,
      <<"SystemExit", "BaseException">> }

\* issubclass(exc, cls)
RECURSIVE DerivesFrom(_, _)
DerivesFrom(exc, cls) ==
    \/ exc = cls
    \/ \E d \in Derivations : d[1] = exc /\ DerivesFrom(d[2], cls)

\* the classes the handlers of line 155 (except zipfile.BadZipFile) and of
\* line 158 (except Exception) take
HandledClasses ==
    { c \in {d[1] : d \in Derivations} \cup {"BaseException"} :
         DerivesFrom(c, "BadZipFile") \/ DerivesFrom(c, "Exception") }

\* lines 155-160: the handlers catch BadZipFile and every other Exception
Caught(exc) == exc \in HandledClasses

\* a variant of ResultOf in which the general handler comes first and takes
\* BadZipFile as well
ResultOf_GenericFirst(exc) ==
    CASE exc = "none" -> "Success"
      [] exc = "skip" -> "SkippedIncomplete"
      [] OTHER -> "OtherError"

\* the ExtractionResult of one archive, from how lines 112-160 ended
ResultOf(exc) ==
    CASE exc = "none" -> "Success"
      [] exc = "skip" -> "SkippedIncomplete"
      [] exc = "BadZipFile" -> "Corrupt"
      [] OTHER -> "OtherError"

\* a variant of SuccessDelta that counts every archive as extracted
SuccessDelta_Always(exc) == 1

\* line 153: only an extraction that ran to its end counts as successful
SuccessDelta(exc) == IF exc = "none" THEN 1 ELSE 0

\* a variant of FailedDelta that forgets line 160
FailedDelta_OnlyCorrupt(exc) == IF exc \in {"skip", "BadZipFile"} THEN 1 ELSE 0

\* a variant of FailedDelta that forgets line 139
FailedDelta_SkipUncounted(exc) == IF exc \in {"none", "skip"} THEN 0 ELSE 1

\* lines 139, 157, 160: every other ending counts as failed
FailedDelta(exc) == IF exc = "none" THEN 0 ELSE 1

\* ------------------------------------------------------------------- state
VARIABLES
    phase,          \* ("select", "selected" in the member-selection specification)
                    \* where main() is: "is_dir", "scan", "count", "confirm",
                    \* "mkdir", "alloc", "extract", "summary", "done"; "exit"
                    \* after an early return, "crash" after an uncaught exception
    run,            \* the number of this run of the program
    input_dir,      \* the archives rglob("*.livp") finds, in its order
    out_kind,       \* input/converted is "absent", a "dir" or a plain "file"
    disk,           \* the output directory: file name -> bytes
    livp_files, num_files, i,
    seen_filenames, \* the registry: base stem -> counter
    original_stem,  \* livp_path.stem of the archive being named (line 104)
    sanitized_stem, \* base_stem inside get_unique_stem, after line 18
    unique_stem, zip_contents, image_file_name, mov_file_name,
    successful_extractions, failed_extractions,
    \* history of the run, kept for the properties
    checks,         \* what start-up has established: "dir" the input path
                    \* is a directory, "found" an archive was found,
                    \* "confirmed" the user agreed to proceed
    out_kind0,      \* out_kind when the run started
    disk0,          \* disk when the run started
    stems,          \* the stem get_unique_stem returned, per archive
    results,        \* the ExtractionResult, per archive
    writes,         \* the output files opened for writing, per archive
    processed,      \* the index of the archive, per loop iteration that
                    \* ran to its end or to a handler
    prev_written    \* stems under which earlier runs wrote a file

vars == <<phase, run, input_dir, out_kind, disk, livp_files, num_files, i,
          seen_filenames, original_stem, sanitized_stem, unique_stem,
          zip_contents, image_file_name,
          mov_file_name, successful_extractions, failed_extractions,
          checks, out_kind0, disk0, stems, results, writes,
          processed, prev_written>>

\* the variables of main() as a fresh process has them
FreshProcess ==
    /\ livp_files = <<>>
    /\ num_files = 0
    /\ i = 0
    /\ seen_filenames = <<>>
    /\ original_stem = NoneName
    /\ sanitized_stem = NoneName
    /\ unique_stem = NoneName
    /\ zip_contents = <<>>
    /\ image_file_name = NoneName
    /\ mov_file_name = NoneName
    /\ successful_extractions = 0
    /\ failed_extractions = 0
    /\ checks = {}
    /\ stems = <<>>
    /\ results = <<>>
    /\ writes = <<>>
    /\ processed = <<>>

Init ==
    /\ phase = "is_dir"
    /\ run = 1
    /\ input_dir \in SeqsUpTo(ArchiveIds, MaxFiles)
    /\ out_kind \in {"absent", "dir", "file"}
    /\ disk \in (IF out_kind = "dir" THEN InitialDisks ELSE {<<>>})
    /\ out_kind0 = out_kind
    /\ disk0 = disk
    /\ prev_written = {}
    /\ FreshProcess

\* the stems under which this run has written at least one file
CurWritten == {stems[k] : k \in {j \in 1..Len(writes) : writes[j] # {}}}

\* ----------------------------------------------------------------- start-up
\* lines 49-54: the input path must be a directory
CheckDir ==
    /\ phase = "is_dir"
    /\ \E is_dir \in BOOLEAN :
          IF is_dir
          THEN phase' = "scan" /\ checks' = checks \cup {"dir"}
          ELSE phase' = "exit" /\ checks' = checks
    /\ UNCHANGED <<original_stem, sanitized_stem, run, input_dir, out_kind, disk, livp_files, num_files, i,
                   seen_filenames, unique_stem, zip_contents, image_file_name,
                   mov_file_name, successful_extractions, failed_extractions,
                   out_kind0, disk0, stems, results, writes, processed, prev_written>>

\* lines 60-66: list the archives, or return when the scan raises
Scan ==
    /\ phase = "scan"
    /\ \E scan_fails \in BOOLEAN :
          IF scan_fails
          THEN phase' = "exit" /\ UNCHANGED <<livp_files, num_files, checks>>
          ELSE /\ phase' = "count"
               /\ livp_files' = input_dir
               /\ num_files' = Len(input_dir)
               /\ checks' = IF input_dir # <<>>
                            THEN checks \cup {"found"} ELSE checks
    /\ UNCHANGED <<original_stem, sanitized_stem, run, input_dir, out_kind, disk, i,
                   seen_filenames, unique_stem, zip_contents, image_file_name,
                   mov_file_name, successful_extractions, failed_extractions,
                   out_kind0, disk0, stems, results, writes, processed, prev_written>>

\* line 70
NoneFound(n) == n = 0

\* lines 69-72: nothing to do without archives
CountCheck ==
    /\ phase = "count"
    /\ phase' = IF NoneFound(num_files) THEN "exit" ELSE "confirm"
    /\ UNCHANGED <<original_stem, sanitized_stem, run, input_dir, out_kind, disk, livp_files, num_files, i,
                   seen_filenames, unique_stem, zip_contents, image_file_name,
                   mov_file_name, successful_extractions, failed_extractions,
                   checks, out_kind0, disk0, stems, results, writes, processed, prev_written>>

\* a variant of Proceeds that goes on unless the answer is 'no'
Proceeds_UnlessNo(answer) == ToLower(Strip(answer)) # <<"n","o">>

\* line 75: the answer, stripped and lower-cased, is 'yes' or 'y'
Proceeds(answer) ==
    ToLower(Strip(answer)) \in { <<"y","e","s">>, <<"y">> }

\* lines 74-77: the user confirms or cancels
Confirm ==
    /\ phase = "confirm"
    /\ \E answer \in Answers :
          /\ phase' = IF Proceeds(answer) THEN "mkdir" ELSE "exit"
          /\ checks' = IF answer \in YesAnswers
                       THEN checks \cup {"confirmed"} ELSE checks
    /\ UNCHANGED <<original_stem, sanitized_stem, run, input_dir, out_kind, disk, livp_files, num_files, i,
                   seen_filenames, unique_stem, zip_contents, image_file_name,
                   mov_file_name, successful_extractions, failed_extractions,
                   out_kind0, disk0, stems, results, writes, processed, prev_written>>

\* lines 80-94: mkdir(exist_ok=True) raises FileExistsError, which nothing
\* catches, when "converted" is a plain file; otherwise the counters and the
\* registry are set up and the loop starts with the first archive
Mkdir ==
    /\ phase = "mkdir"
    /\ IF out_kind = "file"
       THEN /\ phase' = "crash"
            /\ UNCHANGED <<out_kind, i, seen_filenames,
                           successful_extractions, failed_extractions>>
       ELSE /\ out_kind' = "dir"
            /\ successful_extractions' = 0
            /\ failed_extractions' = 0
            /\ seen_filenames' = <<>>
            /\ i' = 1
            /\ phase' = "alloc"
    /\ UNCHANGED <<original_stem, sanitized_stem, run, input_dir, disk, livp_files, num_files,
                   unique_stem, zip_contents, image_file_name,
                   mov_file_name, checks, out_kind0, disk0, stems, results,
                   writes, processed, prev_written>>

\* --------------------------------------------------------------- the loop
\* line 106: the stem returned and the registry as the call left it
Allocated(r) ==
    /\ unique_stem' = r.stem
    /\ seen_filenames' = r.registry
    /\ stems' = Append(stems, r.stem)

\* lines 94-109: name the outputs of archive i
Allocate ==
    /\ phase = "alloc"
    /\ original_stem' = Archive(livp_files[i]).stem
    /\ sanitized_stem' = sanitize_stem(Archive(livp_files[i]).stem)
    /\ Allocated(get_unique_stem(Archive(livp_files[i]).stem, seen_filenames,
                                 DOMAIN disk))
    /\ phase' = "extract"
    /\ UNCHANGED <<run, input_dir, out_kind, disk, livp_files, num_files, i,
                   zip_contents, image_file_name,
                   mov_file_name, successful_extractions, failed_extractions,
                   checks, out_kind0, disk0, results, writes, processed, prev_written>>

\* lines 112-160 given how the extraction of archive i ended: keep the
\* outcome, count it, and move on to the next archive or to the summary. An
\* exception that neither handler takes leaves main() from where it was
\* raised: nothing is printed and nothing is counted
Finish(arch, out) ==
    /\ disk' = out.files
    /\ zip_contents' = IF out.scanned THEN arch.names ELSE zip_contents
    /\ image_file_name' = IF out.scanned THEN out.image ELSE image_file_name
    /\ mov_file_name' = IF out.scanned THEN out.mov ELSE mov_file_name
    /\ writes' = Append(writes, out.writes)
    /\ IF out.exc \notin {"none", "skip"} /\ ~Caught(out.exc)
       THEN /\ phase' = "crash"
            /\ UNCHANGED <<i, processed, results, successful_extractions,
                           failed_extractions>>
       ELSE /\ processed' = Append(processed, i)
            /\ results' = Append(results, ResultOf(out.exc))
            /\ successful_extractions' =
                   successful_extractions + SuccessDelta(out.exc)
            /\ failed_extractions' = failed_extractions + FailedDelta(out.exc)
            /\ IF i < num_files
               THEN phase' = "alloc" /\ i' = i + 1
               ELSE phase' = "summary" /\ i' = i

\* lines 112-160: open archive i, select, copy, count, and move on
Extract ==
    /\ phase = "extract"
    /\ \E out \in ExtractArchive(Archive(livp_files[i]), unique_stem, disk) :
          Finish(Archive(livp_files[i]), out)
    /\ UNCHANGED <<original_stem, sanitized_stem, run, input_dir, out_kind, livp_files, num_files,
                   seen_filenames, unique_stem, checks, out_kind0, disk0,
                   stems, prev_written>>

\* lines 162-170: the final summary
Summary ==
    /\ phase = "summary"
    /\ phase' = "done"
    /\ UNCHANGED <<original_stem, sanitized_stem, run, input_dir, out_kind, disk, livp_files, num_files, i,
                   seen_filenames, unique_stem, zip_contents, image_file_name,
                   mov_file_name, successful_extractions, failed_extractions,
                   checks, out_kind0, disk0, stems, results, writes, processed, prev_written>>

\* the program is started again on the same input directory, after a run
\* that reached its end or one that an uncaught exception ended: a new
\* process, the output directory as the run before left it
NextRun ==
    /\ phase \in {"done", "crash"}
    /\ run < MaxRuns
    /\ phase' = "is_dir"
    /\ run' = run + 1
    /\ out_kind0' = out_kind
    /\ disk0' = disk
    /\ prev_written' = prev_written \cup CurWritten
    /\ livp_files' = <<>>
    /\ num_files' = 0
    /\ i' = 0
    /\ seen_filenames' = <<>>
    /\ original_stem' = NoneName
    /\ sanitized_stem' = NoneName
    /\ unique_stem' = NoneName
    /\ zip_contents' = <<>>
    /\ image_file_name' = NoneName
    /\ mov_file_name' = NoneName
    /\ successful_extractions' = 0
    /\ failed_extractions' = 0
    /\ checks' = {}
    /\ stems' = <<>>
    /\ results' = <<>>
    /\ writes' = <<>>
    /\ processed' = <<>>
    /\ UNCHANGED <<input_dir, out_kind, disk>>

Next ==
    \/ CheckDir
    \/ Scan
    \/ CountCheck
    \/ Confirm
    \/ Mkdir
    \/ Allocate
    \/ Extract
    \/ Summary
    \/ NextRun

Spec == Init /\ [][Next]_vars

\* the loop itself never waits: its steps are taken as long as they are
\* enabled. Nothing is assumed of the steps that read from the user (the
\* prompts of lines 74 and 170), nor of the start of another run
LiveSpec == Spec /\ WF_vars(Allocate) /\ WF_vars(Extract)

\* ------------------------------------------------- member selection alone
\* member names the selection is tried on
M_hiddenMov == <<".","x",".","m","o","v">>
M_txt       == <<"r",".","t","x","t">>
M_subJPEG   == <<"s","/","q",".","J","P","E","G">>
M_dotDirJpg == <<".","h","/","p",".","j","p","g">>
MemberNames == {M_iHEIC, M_pjpg, M_subJPEG, M_vmov, M_vMOV, M_macosImg,
                M_hiddenMov, M_dotDirJpg, M_txt}

\* any member list of an opened archive, before the scan of lines 115-135
SelInit ==
    /\ phase = "select"
    /\ run = 1
    /\ input_dir = <<>>
    /\ out_kind = "dir"
    /\ disk = <<>>
    /\ out_kind0 = out_kind
    /\ disk0 = disk
    /\ prev_written = {}
    /\ zip_contents \in SeqsUpTo(MemberNames, MaxMembers)
    /\ livp_files = <<>>
    /\ num_files = 0
    /\ i = 0
    /\ seen_filenames = <<>>
    /\ original_stem = NoneName
    /\ sanitized_stem = NoneName
    /\ unique_stem = NoneName
    /\ image_file_name = NoneName
    /\ mov_file_name = NoneName
    /\ successful_extractions = 0
    /\ failed_extractions = 0
    /\ checks = {}
    /\ stems = <<>>
    /\ results = <<>>
    /\ writes = <<>>
    /\ processed = <<>>

\* lines 115-135 on that member list
Selected(sel) ==
    /\ image_file_name' = sel.image
    /\ mov_file_name' = sel.mov

SelectStep ==
    /\ phase = "select"
    /\ phase' = "selected"
    /\ Selected(SelectMembers(zip_contents))
    /\ UNCHANGED <<original_stem, sanitized_stem, run, input_dir, out_kind, disk, livp_files, num_files, i,
                   seen_filenames, unique_stem, zip_contents,
                   successful_extractions, failed_extractions, checks,
                   out_kind0, disk0, stems, results, writes, processed,
                   prev_written>>

\* lines 137-140 on what the scan selected: an archive without an image or
\* without a video is counted as failed and skipped
CheckComplete ==
    /\ phase = "selected"
    /\ IF Incomplete([image |-> image_file_name, mov |-> mov_file_name])
       THEN /\ phase' = "skipped"
            /\ results' = Append(results, ResultOf("skip"))
            /\ failed_extractions' = failed_extractions + FailedDelta("skip")
       ELSE /\ phase' = "complete"
            /\ UNCHANGED <<results, failed_extractions>>
    /\ UNCHANGED <<original_stem, sanitized_stem, run, input_dir, out_kind,
                   disk, livp_files, num_files, i, seen_filenames, unique_stem,
                   zip_contents, image_file_name, mov_file_name,
                   successful_extractions, checks, out_kind0, disk0, stems,
                   writes, processed, prev_written>>

SelNext == SelectStep \/ CheckComplete

SelSpec == SelInit /\ [][SelNext]_vars

\* --------------------------------------------------- name allocation alone
\* characters of the file stems get_unique_stem is tried on: a letter, the
\* separator of the suffix, characters the pattern of sanitize_stem replaces,
\* and whitespace
StemChars == {"a", "_", "?", ":", " ", "\n", "\t", NBSP}
RawStems == SeqsUpTo(StemChars, MaxStemLen)

\* registries a run can have built up when the call is made
Registries ==
    { <<>>,
      <<"a">> :> 0,
      <<"a">> :> 2,
      (<<"a">> :> 1) @@ (<<"_">> :> 0),
      (<<"a">> :> 0) @@ (<<"a","_","1">> :> 0) }

\* any call of line 106: a file stem, a registry, an output directory
StemInit ==
    /\ phase = "call"
    /\ run = 1
    /\ input_dir = <<>>
    /\ out_kind = "dir"
    /\ disk \in InitialDisks
    /\ out_kind0 = out_kind
    /\ disk0 = disk
    /\ prev_written = {}
    /\ original_stem \in RawStems
    /\ seen_filenames \in Registries
    /\ livp_files = <<>>
    /\ num_files = 0
    /\ i = 0
    /\ sanitized_stem = NoneName
    /\ unique_stem = NoneName
    /\ zip_contents = <<>>
    /\ image_file_name = NoneName
    /\ mov_file_name = NoneName
    /\ successful_extractions = 0
    /\ failed_extractions = 0
    /\ checks = {}
    /\ stems = <<>>
    /\ results = <<>>
    /\ writes = <<>>
    /\ processed = <<>>

\* lines 13-37 on that call
CallUnique ==
    /\ phase = "call"
    /\ phase' = "returned"
    /\ sanitized_stem' = sanitize_stem(original_stem)
    /\ Allocated(get_unique_stem(original_stem, seen_filenames, DOMAIN disk))
    /\ UNCHANGED <<run, input_dir, out_kind, disk, livp_files, num_files, i,
                   original_stem, zip_contents, image_file_name,
                   mov_file_name, successful_extractions, failed_extractions,
                   checks, out_kind0, disk0, results, writes, processed,
                   prev_written>>

StemNext == CallUnique

StemSpec == StemInit /\ [][StemNext]_vars

\* ===================================================================
\* Properties
\* ===================================================================
\* the recognized output extensions
RecognizedExts == {MOV, HEIC, JPG, JPEG}

\* a file with this stem and a recognized extension is among files
OnDisk(stem, files) == \E ext \in RecognizedExts : (stem \o ext) \in files

\* the n-th name for base stem b (n < 10): b itself, then b_1, b_2, ...
NameOf(b, n) == IF n = 0 THEN b ELSE b \o <<"_", Digits[n + 1]>>

\* the sanitized base stem of the k-th archive of the run
BaseOf(k) == sanitize_stem(Archive(livp_files[k]).stem)

\* the members of a list that are not hidden or metadata and are images / videos
ImageMembers(names) ==
    {m \in 1..Len(names) :
        ~SkippedMember(names[m]) /\ EndsWithImageExt(ToLower(PathName(names[m])))}
MovMembers(names) ==
    {m \in 1..Len(names) :
        ~SkippedMember(names[m]) /\ EndsWith(ToLower(PathName(names[m])), MOV)}

\* the least element of a non-empty set of positions
FirstIn(S) == CHOOSE m \in S : \A n \in S : m <= n

\* the recognized image extension a member name ends with, lower-cased
ExtOfName(name) ==
    CHOOSE e \in {HEIC, JPG, JPEG} : EndsWith(ToLower(PathName(name)), e)

\* an intact archive with exactly one image member and one video member
OnePair(arch) ==
    /\ arch.zip
    /\ arch.fault = NoFault
    /\ Cardinality(ImageMembers(arch.names)) = 1
    /\ Cardinality(MovMembers(arch.names)) = 1

\* the handling of arch is cut short: its members are selected, and while one
\* of them is opened or copied an exception is raised that does not derive
\* from Exception (the user interrupts the program)
CutShort(arch) ==
    /\ arch.zip
    /\ ImageMembers(arch.names) # {}
    /\ MovMembers(arch.names) # {}
    /\ arch.fault.at # "none"
    /\ ~DerivesFrom(arch.fault.exc, "Exception")

\* C1 (uniqueness): the stems get_unique_stem has returned in this run are
\* pairwise distinct, and none of them is the stem of a .mov / .heic / .jpg /
\* .jpeg file that was in the output directory when the run started.
C1_Uniqueness ==
    /\ \A j, k \in 1..Len(stems) : j # k => stems[j] # stems[k]
    /\ \A k \in 1..Len(stems) : ~OnDisk(stems[k], DOMAIN disk0)

\* C2 (idempotent safety across runs): in a second or later run, every file the
\* output directory held when the run started is still there with the same
\* bytes, no such file is opened for writing, no stem the run writes under is a
\* stem an earlier run wrote under, and an archive whose base stem an earlier
\* run wrote under is written under that base stem with a suffix _n, n >= 1.
C2_IdempotentAcrossRuns ==
    run >= 2 =>
        /\ \A f \in DOMAIN disk0 : f \in DOMAIN disk /\ disk[f] = disk0[f]
        /\ \A k \in 1..Len(writes) : writes[k] \cap DOMAIN disk0 = {}
        /\ CurWritten \cap prev_written = {}
        /\ \A k \in 1..Len(writes) :
              (writes[k] # {} /\ BaseOf(k) \in prev_written)
              => \E n \in 1..9 : stems[k] = NameOf(BaseOf(k), n)

\* a second run has written an archive whose base stem the first run wrote under
C2_Witness ==
    /\ run = 2
    /\ \E k \in 1..Len(writes) :
          /\ writes[k] # {}
          /\ BaseOf(k) \in prev_written
          /\ stems[k] # BaseOf(k)
          /\ (stems[k] \o MOV) \in DOMAIN disk

\* the k-th archive is the next one after the j-th with the same base stem
NextSameBase(j, k) ==
    /\ j < k
    /\ BaseOf(j) = BaseOf(k)
    /\ \A m \in (j + 1)..(k - 1) : BaseOf(m) # BaseOf(j)

\* C3 (registry hand-off): within one run, the call of get_unique_stem that
\* follows a call for the same base stem never returns the name that call
\* returned, whatever the extraction in between left in the output directory.
C3_RegistryHandOff ==
    \A j, k \in 1..Len(stems) : NextSameBase(j, k) => stems[k] # stems[j]

\* the two names a successful extraction of the j-th archive writes under stem
PairOf(stem, arch) ==
    { stem \o ExtOfName(arch.names[FirstIn(ImageMembers(arch.names))]),
      stem \o MOV }

\* C4 (duplicate input names): when the first k archives of a run all have the
\* same file stem b (one that sanitizing leaves as it is), each is intact with
\* one image and one video member and extracted successfully, and the output
\* directory held no file named b, b_1, ..., b_(k-1) plus a recognized
\* extension when the run started, then the archives were given b, b_1, ...,
\* b_(k-1) in this order, and once the k-th is extracted the directory holds
\* what it held at the start plus exactly the k pairs of files.
C4_Holds(b, k) ==
    ( /\ sanitize_stem(b) = b
      /\ \A j \in 1..k : /\ Archive(livp_files[j]).stem = b
                         /\ OnePair(Archive(livp_files[j]))
                         /\ results[j] = "Success"
      /\ \A n \in 0..(k - 1) : ~OnDisk(NameOf(b, n), DOMAIN disk0) )
    => /\ \A j \in 1..k : stems[j] = NameOf(b, j - 1)
       /\ (k = Len(stems)) =>
             DOMAIN disk = DOMAIN disk0 \cup
                 UNION {PairOf(NameOf(b, j - 1), Archive(livp_files[j])) : j \in 1..k}

C4_DuplicateNames ==
    \A k \in 1..Len(results) : C4_Holds(Archive(livp_files[1]).stem, k)

\* two archives named a with a .heic image, extracted into an empty directory
C4_Witness ==
    /\ run = 1
    /\ disk0 = <<>>
    /\ livp_files = <<"A", "A">>
    /\ results = <<"Success", "Success">>
    /\ DOMAIN disk = { <<"a">> \o HEIC, <<"a">> \o MOV,
                       <<"a","_","1">> \o HEIC, <<"a","_","1">> \o MOV }

\* C5 for one extraction step of an intact archive with exactly one image and
\* one video member: the result is Success, the image file (named with the
\* lower-cased extension of the image member) and the .mov file are created
\* with the bytes of the two members, and nothing else in the directory changes
C5_Step(arch, stem, image_name, mov_name) ==
    /\ results' = Append(results, "Success")
    /\ (stem \o ExtOfName(image_name)) \notin DOMAIN disk
    /\ (stem \o MOV) \notin DOMAIN disk
    /\ DOMAIN disk' = DOMAIN disk \cup {stem \o ExtOfName(image_name), stem \o MOV}
    /\ disk'[stem \o ExtOfName(image_name)] = arch.data[image_name]
    /\ disk'[stem \o MOV] = arch.data[mov_name]
    /\ \A f \in DOMAIN disk : disk'[f] = disk[f]

C5_StepOf(arch) ==
    OnePair(arch) =>
        C5_Step(arch, unique_stem,
                arch.names[FirstIn(ImageMembers(arch.names))],
                arch.names[FirstIn(MovMembers(arch.names))])

\* C5 (successful extraction): every extraction of an intact archive with
\* exactly one recognized image member and one .mov member, in either order,
\* yields Success and creates exactly the two files with the members' bytes.
C5_SuccessfulExtraction ==
    [][phase = "extract" => C5_StepOf(Archive(livp_files[i]))]_vars

\* the archive whose video comes first and whose image is a .jpg was extracted
C5_Witness ==
    \E k \in 1..Len(results) :
        /\ livp_files[k] = "B"
        /\ results[k] = "Success"
        /\ (stems[k] \o JPG) \in DOMAIN disk
        /\ disk[stems[k] \o JPG] = <<7, 8>>
        /\ disk[stems[k] \o MOV] = <<5, 6>>

\* the scan of lines 118-135 without the break of lines 134-135
RECURSIVE FullScan(_, _, _, _)
FullScan(names, k, img, mov) ==
    IF k > Len(names) THEN [image |-> img, mov |-> mov]
    ELSE IF SkippedMember(names[k]) THEN FullScan(names, k + 1, img, mov)
    ELSE FullScan(names, k + 1,
                  IF img = NoneName /\ k \in ImageMembers(names) THEN names[k] ELSE img,
                  IF mov = NoneName /\ k \in MovMembers(names) THEN names[k] ELSE mov)

\* the first member of names at a position of S, None when S is empty
FirstOf(names, S) == IF S = {} THEN NoneName ELSE names[FirstIn(S)]

\* C6 (first-match member selection): the image chosen is the first member,
\* not hidden or metadata, whose lower-cased basename ends with .heic, .jpg or
\* .jpeg, the video chosen is the first such member ending with .mov (None when
\* there is none), whatever the members of the other kind are, and the scan
\* that stops once both are found yields what a scan of the whole list yields.
C6_FirstMatch ==
    phase = "selected" =>
        /\ image_file_name = FirstOf(zip_contents, ImageMembers(zip_contents))
        /\ mov_file_name = FirstOf(zip_contents, MovMembers(zip_contents))
        /\ FullScan(zip_contents, 1, NoneName, NoneName)
               = [image |-> image_file_name, mov |-> mov_file_name]

\* two image candidates after a discarded one, and a video before the second
\* image: the first kept image is chosen and the scan stops before the end
C6_Witness ==
    /\ phase = "selected"
    /\ zip_contents = <<M_macosImg, M_pjpg, M_vMOV, M_iHEIC>>
           \/ zip_contents = <<M_macosImg, M_pjpg, M_vMOV>>
    /\ image_file_name = M_pjpg
    /\ mov_file_name = M_vMOV

\* how the loop goes on after archive i: to the next archive, or to the summary
LoopGoesOn ==
    /\ phase' = IF i < num_files THEN "alloc" ELSE "summary"
    /\ i' = IF i < num_files THEN i + 1 ELSE i

\* one failed extraction that leaves the output directory alone
FailsQuietly(result) ==
    /\ results' = Append(results, result)
    /\ failed_extractions' = failed_extractions + 1
    /\ successful_extractions' = successful_extractions
    /\ disk' = disk
    /\ out_kind' = out_kind
    /\ LoopGoesOn

\* C7 (incomplete archive): extracting a readable archive without a selectable
\* image member or without a selectable video member yields SkippedIncomplete,
\* adds one to the failed count and nothing to the succeeded count, leaves the
\* output directory as it is, and the loop goes on with the next archive.
C7_IncompleteArchive ==
    [][ ( /\ phase = "extract"
          /\ Archive(livp_files[i]).zip
          /\ \/ ImageMembers(Archive(livp_files[i]).names) = {}
             \/ MovMembers(Archive(livp_files[i]).names) = {} )
        => FailsQuietly("SkippedIncomplete") ]_vars

\* an archive with only a usable video member was skipped and the archive
\* after it was processed
C7_Witness ==
    /\ Len(results) = 2
    /\ livp_files[1] = "V"
    /\ results[1] = "SkippedIncomplete"
    /\ failed_extractions >= 1
    /\ disk = disk0 \/ results[2] = "Success"

\* C8 (corrupt archive): extracting a file that is not a zip container yields
\* Corrupt, adds one to the failed count only, writes nothing, and the loop
\* goes on; at the summary every archive found has been processed.
C8_CorruptArchive ==
    /\ [][ (phase = "extract" /\ ~Archive(livp_files[i]).zip)
           => FailsQuietly("Corrupt") ]_vars
    /\ [](phase \in {"summary", "done"} => Len(results) = num_files)

\* a corrupt first archive, and the archive after it extracted
C8_Witness ==
    /\ phase = "done"
    /\ livp_files[1] = "X"
    /\ results = <<"Corrupt", "Success">>
    /\ failed_extractions = 1
    /\ successful_extractions = 1

\* C9 (fault isolation and termination): the archives are processed once each
\* in enumeration order, and an archive is named only when the one before it
\* is finished.  Every archive whose handling is not cut short ends with one
\* of the four outcomes, whatever the outcomes before it, and the loop goes on
\* with the next archive or the summary: no failure of an archive ends the
\* run, and inside the loop the run ends only where the user interrupts it.
\* At the summary every archive found has been processed, and from every
\* point of the loop from which no archive is cut short the summary is
\* reached.
C9_FaultIsolation ==
    /\ [](processed = [k \in 1..Len(processed) |-> k])
    /\ [](Len(results) = Len(processed) /\ Len(processed) <= num_files)
    /\ [](phase = "alloc" => Len(stems) = Len(results) /\ i = Len(results) + 1)
    /\ [](phase = "extract" => Len(stems) = Len(results) + 1 /\ i = Len(stems))
    /\ [][ (phase = "extract" /\ ~CutShort(Archive(livp_files[i])))
             => /\ LoopGoesOn
                /\ \E r \in {"Success", "SkippedIncomplete", "Corrupt",
                              "OtherError"} : results' = Append(results, r) ]_vars
    /\ []((phase = "crash" /\ stems # <<>>) => CutShort(Archive(livp_files[i])))
    /\ [](phase \in {"summary", "done"} => Len(processed) = num_files)
    /\ ( /\ phase \in {"alloc", "extract"}
         /\ \A k \in i..num_files : ~CutShort(Archive(livp_files[k])) )
       ~> (phase = "summary")

\* the summary is reached after an archive that ended OtherError and one that
\* ended Corrupt, SkippedIncomplete or Success
C9_Witness ==
    /\ phase = "summary"
    /\ Len(results) = 2
    /\ results[1] = "OtherError"
    /\ results[2] \in {"Corrupt", "SkippedIncomplete", "Success"}

\* C10 (no effect before processing begins): a run that returned early has not
\* created the output directory, changed a file or processed an archive; and
\* whenever the run has created the directory, changed a file or named an
\* archive, the input path was a directory, an archive was found and the user
\* agreed to proceed.
C10_NoEffectBeforeProcessing ==
    /\ phase = "exit" =>
          /\ out_kind = out_kind0
          /\ disk = disk0
          /\ stems = <<>> /\ results = <<>> /\ writes = <<>>
    /\ (out_kind # out_kind0 \/ disk # disk0 \/ stems # <<>>) =>
          checks = {"dir", "found", "confirmed"}

\* the user declined, and the output directory is still absent
C10_Witness ==
    /\ phase = "exit"
    /\ checks = {"dir", "found"}
    /\ out_kind = "absent"
    /\ num_files >= 1

\* characters a sanitized stem must not hold, and surrounding whitespace
C11_Forbidden == {"<", ">", ":", "\"", "/", "\\", "|", "?", "*", "\n", "\r"}
C11_Blank == {" ", "\t", "\n", "\r", "\f",
              "", "", "", "", "", "", " "}

\* s holds no forbidden character and neither starts nor ends with whitespace
C11_Clean(s) ==
    /\ \A k \in 1..Len(s) : s[k] \notin C11_Forbidden
    /\ s # <<>> => (s[1] \notin C11_Blank /\ s[Len(s)] \notin C11_Blank)

\* C11 (sanitization): the base stem sanitize_stem produces holds none of
\* < > : " / \ | ? * newline carriage-return and has no leading or trailing
\* whitespace, and a stem that is already like that is returned unchanged.
C11_Sanitization ==
    phase = "returned" =>
        /\ C11_Clean(sanitized_stem)
        /\ C11_Clean(original_stem) => sanitized_stem = original_stem

\* a stem with a replaced character and a trailing no-break space was sanitized
C11_Witness ==
    /\ phase = "returned"
    /\ original_stem = <<"?", "a", NBSP>>
    /\ sanitized_stem = <<"_", "a">>

\* the registry r2 differs from r only at base stem b, which r2 holds with a
\* counter that is at least the one r held (0 when r did not hold b)
C15_OnlyRaised(r, r2, b) ==
    /\ DOMAIN r2 = DOMAIN r \cup {b}
    /\ \A c \in DOMAIN r : c # b => r2[c] = r[c]
    /\ r2[b] >= (IF b \in DOMAIN r THEN r[b] ELSE 0)

\* C15 (allocate frame effect): a call of get_unique_stem leaves the output
\* directory as it is, leaves the registry entry of every other base stem as
\* it is, creates the entry of its base stem or raises it and never lowers
\* it, and returns the base stem when the counter recorded for it is 0 and
\* the base stem followed by _counter otherwise.
C15_AllocateFrame ==
    [][ phase = "call" =>
          /\ disk' = disk
          /\ out_kind' = out_kind
          /\ C15_OnlyRaised(seen_filenames, seen_filenames', sanitized_stem')
          /\ unique_stem' =
                NameOf(sanitized_stem', seen_filenames'[sanitized_stem']) ]_vars

\* a call for a stem the registry holds at 0, among other stems, whose plain
\* name is taken on disk: the counter was raised and the name carries it
C15_Witness ==
    /\ phase = "returned"
    /\ original_stem = <<"a">>
    /\ DOMAIN seen_filenames = {<<"a">>, <<"a","_","1">>}
    /\ seen_filenames[<<"a">>] >= 1
    /\ seen_filenames[<<"a","_","1">>] = 0
    /\ unique_stem = NameOf(<<"a">>, seen_filenames[<<"a">>])

\* C12 (no double write within a run): no output file is opened for writing
\* by two archives of a run, and every file an extraction opens for writing
\* was absent from the output directory when the archive's stem was allocated
\* (the directory does not change between the allocation and the extraction
\* of an archive: nothing runs in between).
C12_NoDoubleWrite ==
    /\ [](\A j, k \in 1..Len(writes) : j # k => writes[j] \cap writes[k] = {})
    /\ [][ phase = "extract" =>
              \A f \in writes'[Len(writes')] : f \notin DOMAIN disk ]_vars

\* the copy of the first archive failed after its image file was written, and
\* the next archive of the same stem wrote its pair under another name
C12_Witness ==
    /\ Len(writes) = 2
    /\ results = <<"OtherError", "Success">>
    /\ stems[1] = <<"a">>
    /\ writes[1] = {<<"a">> \o HEIC}
    /\ writes[2] = {<<"a","_","1">> \o HEIC, <<"a","_","1">> \o MOV}

\* both output files of the k-th archive of the run were written in full:
\* the archive opened the image file and the video file under its stem, and
\* the directory holds them with the bytes of the two selected members
C13_FullyWritten(k) ==
    /\ Archive(livp_files[k]).zip
    /\ ImageMembers(Archive(livp_files[k]).names) # {}
    /\ MovMembers(Archive(livp_files[k]).names) # {}
    /\ writes[k] = PairOf(stems[k], Archive(livp_files[k]))
    /\ \A f \in writes[k] : f \in DOMAIN disk
    /\ \E f \in writes[k] :
          /\ f # stems[k] \o MOV
          /\ disk[f] = Archive(livp_files[k]).data[
                 FirstOf(Archive(livp_files[k]).names,
                         ImageMembers(Archive(livp_files[k]).names))]
    /\ disk[stems[k] \o MOV] = Archive(livp_files[k]).data[
            FirstOf(Archive(livp_files[k]).names,
                    MovMembers(Archive(livp_files[k]).names))]

\* C13 (summary accounting): between loop iterations and at the summary the
\* succeeded and the failed count add up to the number of archives processed,
\* which at the summary is the number of archives found; every extraction adds
\* one to exactly one of the two counts, except the one the user interrupts,
\* which ends the run before either count changes and before any summary; and
\* the succeeded count is the number of archives whose two output files were
\* written in full.
C13_SummaryAccounting ==
    /\ [](phase \in {"alloc", "summary", "done"} =>
            successful_extractions + failed_extractions = Len(results))
    /\ [](phase \in {"summary", "done"} =>
            successful_extractions + failed_extractions = num_files)
    /\ [][ phase = "extract" =>
              IF CutShort(Archive(livp_files[i]))
              THEN /\ successful_extractions' = successful_extractions
                   /\ failed_extractions' = failed_extractions
                   /\ results' = results
                   /\ phase' = "crash"
              ELSE \/ /\ successful_extractions' = successful_extractions + 1
                      /\ failed_extractions' = failed_extractions
                   \/ /\ successful_extractions' = successful_extractions
                      /\ failed_extractions' = failed_extractions + 1 ]_vars
    /\ [](phase \in {"alloc", "summary", "done"} =>
            successful_extractions =
                Cardinality({k \in 1..Len(results) : C13_FullyWritten(k)}))

\* the summary after an archive whose video copy broke off, leaving the image
\* file and an empty video file, and an archive that was extracted
C13_Witness ==
    /\ phase = "summary"
    /\ livp_files = <<"K", "A">>
    /\ successful_extractions = 1
    /\ failed_extractions = 1
    /\ writes[1] = {<<"a">> \o HEIC, <<"a">> \o MOV}
    /\ disk[<<"a">> \o MOV] = <<>>

\* a member name with a path segment that, lower-cased, starts with '.' or
\* with '__macosx'
C14_Discarded(name) ==
    \E k \in 1..Len(PathParts(name)) :
        \/ StartsWith(ToLower(PathParts(name)[k]), <<".">>)
        \/ StartsWith(ToLower(PathParts(name)[k]),
                      <<"_","_","m","a","c","o","s","x">>)

\* the positions of names whose basename has an image / the video extension
C14_Images(names) ==
    {m \in 1..Len(names) : EndsWithImageExt(ToLower(PathName(names[m])))}
C14_Movs(names) ==
    {m \in 1..Len(names) :
        /\ ~EndsWithImageExt(ToLower(PathName(names[m])))
        /\ EndsWith(ToLower(PathName(names[m])), MOV)}

\* what is chosen among the positions S of names: nothing when all of them
\* are discarded, else the first that is not
C14_Chosen(names, S, chosen) ==
    IF \A m \in S : C14_Discarded(names[m])
    THEN chosen = NoneName
    ELSE /\ ~C14_Discarded(chosen)
         /\ chosen = names[FirstIn({m \in S : ~C14_Discarded(names[m])})]

\* C14 (hidden/metadata exclusion): a selected image or video member has no
\* path segment that starts with '.' or '__macosx'; when every member with an
\* image extension, or every member with the video extension, is discarded,
\* nothing of that kind is selected and the archive ends SkippedIncomplete;
\* and a discarded member does not take the place of a valid member of its
\* kind that comes after it.
C14_HiddenExcluded ==
    phase \in {"selected", "skipped", "complete"} =>
        /\ C14_Chosen(zip_contents, C14_Images(zip_contents), image_file_name)
        /\ C14_Chosen(zip_contents, C14_Movs(zip_contents), mov_file_name)
        /\ ( /\ phase # "selected"
             /\ \/ \A m \in C14_Images(zip_contents) :
                       C14_Discarded(zip_contents[m])
                \/ \A m \in C14_Movs(zip_contents) :
                       C14_Discarded(zip_contents[m]) )
           => (phase = "skipped" /\ results = <<"SkippedIncomplete">>)

\* the only images lie under __MACOSX and under a dot directory, before and
\* after a video: no image is selected and the archive is skipped
C14_Witness ==
    /\ phase = "skipped"
    /\ zip_contents = <<M_macosImg, M_vmov, M_dotDirJpg>>
    /\ image_file_name = NoneName
    /\ mov_file_name = M_vmov
    /\ results = <<"SkippedIncomplete">>

\* archive i is a zip container in which an image and a video are selected,
\* and opening or copying one of the two members fails
C16_CopyFails ==
    /\ phase = "extract"
    /\ Archive(livp_files[i]).zip
    /\ ImageMembers(Archive(livp_files[i]).names) # {}
    /\ MovMembers(Archive(livp_files[i]).names) # {}
    /\ Archive(livp_files[i]).fault.at # "none"

\* one failure with this result is counted and the run goes on
C16_CountedAs(result) ==
    /\ results' = Append(results, result)
    /\ failed_extractions' = failed_extractions + 1
    /\ successful_extractions' = successful_extractions
    /\ LoopGoesOn

\* a stem under which a failed extraction of this run left a file is given to
\* no later archive of the run, and no stem under which an earlier run wrote
\* a file is given to an archive of this run
C16_LeftBehindOccupied ==
    /\ \A j, k \in 1..Len(stems) :
          ( /\ j < k
            /\ j <= Len(results)
            /\ results[j] \in {"OtherError", "Corrupt"}
            /\ writes[j] # {} ) => stems[k] # stems[j]
    /\ \A k \in 1..Len(stems) : stems[k] \notin prev_written

\* C16 as stated (copy failure is surfaced): when opening or copying a member
\* fails after the selection, the result is OtherError, one failure and no
\* success is counted, the run goes on, and the stem of a file the failed
\* extraction left behind is not given out again.
C16_AsStated ==
    /\ [][C16_CopyFails => C16_CountedAs("OtherError")]_vars
    /\ []C16_LeftBehindOccupied

\* the failure of archive i is an exception derived from Exception
C16_IsException == DerivesFrom(Archive(livp_files[i]).fault.exc, "Exception")

\* the run ends here with nothing counted and no result
C16_EndsUncounted ==
    /\ phase' = "crash"
    /\ results' = results
    /\ failed_extractions' = failed_extractions
    /\ successful_extractions' = successful_extractions

\* C16 as the code has it: when the failure is an exception derived from
\* Exception, the result is Corrupt for a zipfile.BadZipFile (a member whose
\* payload fails its check) and OtherError for every other one, one failure
\* and no success is counted and the run goes on; when it is not derived from
\* Exception (the user interrupts the copy), the run ends with nothing
\* counted; the rest as stated.
C16_CopyFailureSurfaced ==
    /\ [][ (C16_CopyFails /\ C16_IsException) =>
              C16_CountedAs(IF Archive(livp_files[i]).fault.exc = "BadZipFile"
                            THEN "Corrupt" ELSE "OtherError") ]_vars
    /\ [][ (C16_CopyFails /\ ~C16_IsException) => C16_EndsUncounted ]_vars
    /\ []C16_LeftBehindOccupied

\* second run: the archive whose video cannot be opened left a.heic behind in
\* the first run and a_1.heic in this one, and the archive after it was given
\* a third name
C16_Witness ==
    /\ run = 2
    /\ livp_files = <<"N", "A">>
    /\ results = <<"OtherError", "Success">>
    /\ stems[1] # <<"a">>
    /\ stems[2] # stems[1]
    /\ (<<"a">> \o HEIC) \in DOMAIN disk0
    /\ writes[1] = {stems[1] \o HEIC}
    /\ failed_extractions = 1

====
